---------------------------- MODULE Spec2Model ----------------------------
(***************************************************************************)
(* The chat relay handler of api/coze.js as a state machine.  One run of   *)
(* the machine is one invocation of module.exports(req, res): the          *)
(* environment (process.env) and the inbound request are fixed by Init,    *)
(* the upstream SDK stream is the environment's nondeterminism, and the    *)
(* response object res is the state the handler writes.                    *)
(*                                                                         *)
(* JavaScript values are records [t |-> type, v |-> value]; strings are    *)
(* sequences of one-character strings so that split, trim, length and      *)
(* byte-wise comparison are computed, not assumed.                         *)
(*                                                                         *)
(* Left out, because it changes no state of the response: the x-debug      *)
(* console.log calls (lines 7, 104, 120), the base URL (lines 5, 74) and   *)
(* conversation_id (lines 60, 92, 138), which only travels to the SDK.     *)
(***************************************************************************)
EXTENDS Integers, Sequences, FiniteSets, TLC

-----------------------------------------------------------------------------
(* Bounds of the model *)

\* longest upstream stream (number of chunks the SDK stream yields)
MaxChunks == 2

-----------------------------------------------------------------------------
(* JavaScript values *)

Undefined == [t |-> "undefined"]
Null == [t |-> "null"]
Str(s) == [t |-> "string", v |-> s]
Bool(b) == [t |-> "boolean", v |-> b]
Arr(a) == [t |-> "array", v |-> a]

\* JavaScript truthiness, as used by `!x`, `x || y` and `if (x)`
Truthy(x) ==
    CASE x.t = "undefined" -> FALSE
      [] x.t = "null" -> FALSE
      [] x.t = "string" -> x.v # <<>>
      [] x.t = "boolean" -> x.v
      [] x.t = "array" -> TRUE

\* Array.isArray
IsArray(x) == x.t = "array"

Range(s) == {s[i] : i \in DOMAIN s}

-----------------------------------------------------------------------------
(* getAllowedOrigins: (env || '').split(',').map(trim).filter(Boolean) *)

IsSpace(c) == c = " "

RECURSIVE TrimLeft(_)
TrimLeft(s) ==
    IF s # <<>> /\ IsSpace(Head(s)) THEN TrimLeft(Tail(s)) ELSE s

RECURSIVE TrimRight(_)
TrimRight(s) ==
    IF s # <<>> /\ IsSpace(s[Len(s)])
    THEN TrimRight(SubSeq(s, 1, Len(s) - 1))
    ELSE s

Trim(s) == TrimRight(TrimLeft(s))

\* String.prototype.split(','): the pieces between the commas, empty ones kept
RECURSIVE SplitFrom(_, _)
SplitFrom(s, cur) ==
    IF s = <<>> THEN <<cur>>
    ELSE IF Head(s) = "," THEN <<cur>> \o SplitFrom(Tail(s), <<>>)
    ELSE SplitFrom(Tail(s), Append(cur, Head(s)))

Split(s) == SplitFrom(s, <<>>)

\* Array.prototype.filter(Boolean) on strings: the empty string is falsy
FilterNonEmpty(xs) == SelectSeq(xs, LAMBDA x : x # <<>>)

MapTrim(xs) == [i \in DOMAIN xs |-> Trim(xs[i])]

getAllowedOrigins(e) ==
    LET raw == IF Truthy(e.ALLOWED_ORIGINS) THEN e.ALLOWED_ORIGINS.v ELSE <<>>
    IN FilterNonEmpty(MapTrim(Split(raw)))

-----------------------------------------------------------------------------
(* setCors *)

Star == <<"*">>

\* mutant of CorsOrigin: echoes whatever Origin the request carries
CorsOrigin_EchoesAnyOrigin(e, reqOrigin) ==
    LET allowed == getAllowedOrigins(e)
    IN IF Len(allowed) = 0 THEN Star
       ELSE IF Truthy(reqOrigin) THEN reqOrigin.v
       ELSE allowed[1]

\* the value of Access-Control-Allow-Origin (lines 17-23)
CorsOrigin(e, reqOrigin) ==
    LET allowed == getAllowedOrigins(e)
        origin ==
            IF Len(allowed) = 0
            THEN Star
            ELSE IF Truthy(reqOrigin) /\ reqOrigin.v \in Range(allowed)
                 THEN reqOrigin.v
                 ELSE allowed[1]
    IN IF origin # <<>> THEN origin ELSE Star

CorsHeaders(e, reqOrigin) ==
    [ h \in { "Access-Control-Allow-Origin", "Vary",
              "Access-Control-Allow-Methods", "Access-Control-Allow-Headers",
              "Access-Control-Max-Age" } |->
        CASE h = "Access-Control-Allow-Origin" -> CorsOrigin(e, reqOrigin)
          [] h = "Vary" -> <<"Origin">>
          [] h = "Access-Control-Allow-Methods" -> <<"POST, OPTIONS">>
          [] h = "Access-Control-Allow-Headers" -> <<"Content-Type, X-App-Auth">>
          [] h = "Access-Control-Max-Age" -> <<"86400">> ]

-----------------------------------------------------------------------------
(* verifyAppAuth *)

\* crypto.timingSafeEqual on two buffers of equal length
timingSafeEqual(a, b) == \A i \in DOMAIN a : a[i] = b[i]

\* mutant of verifyAppAuth: a request without the header is let through
verifyAppAuth_MissingHeaderPasses(e, r) ==
    LET secret == e.APP_SHARED_SECRET
        hdr == r.headers.xAppAuth
    IN IF ~Truthy(secret) THEN TRUE
       ELSE IF ~Truthy(hdr) THEN TRUE
       ELSE IF Len(hdr.v) # Len(secret.v) THEN FALSE
       ELSE timingSafeEqual(hdr.v, secret.v)

\* mutant of verifyAppAuth: the header is required before the secret is looked at
verifyAppAuth_HeaderCheckedFirst(e, r) ==
    LET secret == e.APP_SHARED_SECRET
        hdr == r.headers.xAppAuth
    IN IF ~Truthy(hdr) THEN FALSE
       ELSE IF ~Truthy(secret) THEN TRUE
       ELSE IF Len(hdr.v) # Len(secret.v) THEN FALSE
       ELSE timingSafeEqual(hdr.v, secret.v)

verifyAppAuth(e, r) ==
    LET secret == e.APP_SHARED_SECRET
        hdr == r.headers.xAppAuth
    IN IF ~Truthy(secret) THEN TRUE
       ELSE IF ~Truthy(hdr) THEN FALSE
       ELSE IF Len(hdr.v) # Len(secret.v) THEN FALSE
       ELSE timingSafeEqual(hdr.v, secret.v)

-----------------------------------------------------------------------------
(* The inputs: process.env and the inbound request *)

\* ALLOWED_ORIGINS: unset, empty, one origin, two origins, padded with
\* blanks, and nothing but separators
AllowedOriginsEnvs ==
    { Undefined, Str(<<>>), Str(<<"a">>), Str(<<"a", ",", "b">>),
      Str(<<" ", "b", " ", ",", "a", " ">>), Str(<<",", " ", ",">>) }

Secrets == { Undefined, Str(<<>>), Str(<<"s", "t">>) }

ApiKeys == { Undefined, Str(<<>>), Str(<<"k">>) }

Envs ==
    [ ALLOWED_ORIGINS : AllowedOriginsEnvs,
      APP_SHARED_SECRET : Secrets,
      COZE_API_KEY : ApiKeys ]

Methods == { "OPTIONS", "POST", "GET", "DELETE" }

OriginHeaders == { Undefined, Str(<<>>), Str(<<"a">>), Str(<<"b">>), Str(<<"c">>) }

AuthHeaders ==
    { Undefined, Str(<<>>), Str(<<"s">>), Str(<<"s", "t">>), Str(<<"s", "u">>),
      Str(<<"s", "t", "u">>) }

\* req.body as the hosting runtime hands it over: absent, an object, or a
\* getter that throws on a body that is not JSON
BodyObjects ==
    [ bot_id : { Undefined, Str(<<>>), Str(<<"b">>) },
      user_id : { Undefined, Str(<<"u">>) },
      additional_messages : { Undefined, Str(<<"m">>), Arr(<<>>) },
      stream : { Undefined, Null, Bool(TRUE), Bool(FALSE) } ]

Throws == [t |-> "throws"]

ReqBodies == { Undefined, Throws } \cup { [t |-> "object", v |-> o] : o \in BodyObjects }

Requests ==
    [ method : Methods,
      headers : [ origin : OriginHeaders, xAppAuth : AuthHeaders ],
      body : ReqBodies ]

\* `let body = {}` (line 49): every field undefined
EmptyObject ==
    [ bot_id |-> Undefined, user_id |-> Undefined,
      additional_messages |-> Undefined, stream |-> Undefined ]

-----------------------------------------------------------------------------
(* The upstream: what api.chat.stream resolves to, and what it yields *)

\* async-iterable, reader-based (getReader), an object that is neither, null
Shapes == { "iter", "reader", "other", "null" }

HasAsyncIterator(s) == s = "iter"

HasGetReader(s) == s = "reader"

\* the event objects an async-iterable yields
Chunks == { "A", "B" }

\* what reader.read() hands over: a string or a byte array
ReaderValues == { Str(<<"A">>), [t |-> "bytes", v |-> <<66>>] }

\* Buffer.from(value).toString('utf-8') / TextDecoder.decode on ASCII bytes
Utf8(bytes) ==
    [ i \in DOMAIN bytes |->
        CASE bytes[i] = 65 -> "A"
          [] bytes[i] = 66 -> "B"
          [] OTHER -> "?" ]

\* line 118
ToText(value) == IF value.t = "string" THEN value.v ELSE Utf8(value.v)

-----------------------------------------------------------------------------
(* What the handler writes *)

JSONstringify(x) == [json |-> x]

RawText(t) == [text |-> t]

\* `data: ${payload}\n\n`
SseEvent(payload) == [data |-> payload]

DoneEvent == SseEvent(RawText(<<"[", "D", "O", "N", "E", "]">>))

NoticeEvent == SseEvent(JSONstringify([notice |-> "unknown stream payload"]))

SseHeaders(h) ==
    [ k \in DOMAIN h \cup { "Content-Type", "Cache-Control", "Connection" } |->
        CASE k = "Content-Type" -> <<"text/event-stream; charset=utf-8">>
          [] k = "Cache-Control" -> <<"no-cache, no-transform">>
          [] k = "Connection" -> <<"keep-alive">>
          [] OTHER -> h[k] ]

-----------------------------------------------------------------------------
(* State *)

VARIABLES
    env,          \* process.env
    req,          \* the inbound request
    pc,           \* where the handler is
    body,         \* local `body`
    stream,       \* local `stream` (after the default)
    statusCode,   \* res.statusCode
    headers,      \* the response headers set so far
    headersSent,  \* res.headersSent
    wireStatus,   \* the status line the caller has received, 0 before it is sent
    written,      \* the res.write calls, in order
    sent,         \* the document res.json sent (at most one)
    ended,        \* res.end has been called
    calls,        \* number of api.chat.stream calls made
    shape,        \* the shape of `s`, "none" before the call resolves
    upState,      \* "idle", "open", "done" or "failed"
    yielded,      \* what the upstream stream has yielded so far
    chunks,       \* local `chunks` of the non-streaming branch
    buf           \* local `buf` of the non-streaming branch

vars ==
    << env, req, pc, body, stream, statusCode, headers, headersSent, wireStatus,
       written, sent, ended, calls, shape, upState, yielded, chunks, buf >>

resVars == << statusCode, headers, headersSent, wireStatus, written, sent, ended >>

upVars == << calls, shape, upState, yielded >>

localVars == << body, stream, chunks, buf >>

Init ==
    /\ env \in Envs
    /\ req \in Requests
    /\ pc = "setCors"
    /\ body = EmptyObject
    /\ stream = Undefined
    /\ statusCode = 200
    /\ headers = << >>
    /\ headersSent = FALSE
    /\ wireStatus = 0
    /\ written = << >>
    /\ sent = << >>
    /\ ended = FALSE
    /\ calls = 0
    /\ shape = "none"
    /\ upState = "idle"
    /\ yielded = << >>
    /\ chunks = << >>
    /\ buf = << >>

-----------------------------------------------------------------------------
(* The response object *)

\* res.status(code).json(doc), returned by the handler.  Once the head of
\* the response is on the wire the status can no longer change and json
\* throws (ERR_HTTP_HEADERS_SENT): the handler's promise rejects.
Json(code, doc) ==
    /\ statusCode' = code
    /\ IF headersSent
       THEN /\ pc' = "crashed"
            /\ UNCHANGED << headers, headersSent, wireStatus, written, sent, ended >>
       ELSE /\ headersSent' = TRUE
            /\ wireStatus' = code
            /\ sent' = << doc >>
            /\ ended' = TRUE
            /\ pc' = "done"
            /\ UNCHANGED << headers, written >>

\* res.status(code) if any, res.write(e1); ...; res.write(en), then res.end()
\* when `end`: the first of them sends the head with the status code set so far
Flush(code, events, end) ==
    /\ statusCode' = code
    /\ written' = written \o events
    /\ headersSent' = TRUE
    /\ wireStatus' = IF headersSent THEN wireStatus ELSE statusCode'
    /\ ended' = end

-----------------------------------------------------------------------------
(* The handler, line by line *)

\* line 42
SetCors ==
    /\ pc = "setCors"
    /\ headers' = CorsHeaders(env, req.headers.origin)
    /\ pc' = "method"
    /\ UNCHANGED << env, req, localVars, upVars, statusCode, headersSent,
                    wireStatus, written, sent, ended >>

\* mutant of Preflight: the preflight is answered without its status
Preflight_NoStatus ==
    /\ pc = "method"
    /\ req.method = "OPTIONS"
    /\ Flush(statusCode, << >>, TRUE)
    /\ pc' = "done"
    /\ UNCHANGED << env, req, localVars, upVars, headers, sent >>

\* line 44
Preflight ==
    /\ pc = "method"
    /\ req.method = "OPTIONS"
    /\ Flush(204, << >>, TRUE)
    /\ pc' = "done"
    /\ UNCHANGED << env, req, localVars, upVars, headers, written, sent >>

\* mutant of MethodIsPost: only GET is turned away
MethodIsPost_OnlyGetRefused(m) == m # "GET"

\* line 45: req.method !== 'POST', negated
MethodIsPost(m) == m = "POST"

\* line 45
MethodNotAllowed ==
    /\ pc = "method"
    /\ req.method # "OPTIONS"
    /\ ~MethodIsPost(req.method)
    /\ Json(405, [error |-> "Method Not Allowed"])
    /\ UNCHANGED << env, req, localVars, upVars >>

MethodOk ==
    /\ pc = "method"
    /\ req.method # "OPTIONS"
    /\ MethodIsPost(req.method)
    /\ pc' = "auth"
    /\ UNCHANGED << env, req, localVars, upVars, resVars >>

\* line 46
Unauthorized ==
    /\ pc = "auth"
    /\ ~verifyAppAuth(env, req)
    /\ Json(401, [error |-> "Unauthorized"])
    /\ UNCHANGED << env, req, localVars, upVars >>

AuthOk ==
    /\ pc = "auth"
    /\ verifyAppAuth(env, req)
    /\ pc' = "body"
    /\ UNCHANGED << env, req, localVars, upVars, resVars >>

\* lines 49-54: body = req.body || {}, or the getter throws
InvalidJson ==
    /\ pc = "body"
    /\ req.body = Throws
    /\ Json(400, [error |-> "Invalid JSON body"])
    /\ UNCHANGED << env, req, localVars, upVars >>

\* lines 51, 56-63
ReadBody ==
    /\ pc = "body"
    /\ req.body # Throws
    /\ body' = IF req.body.t = "object" THEN req.body.v ELSE EmptyObject
    /\ stream' = IF body'.stream = Undefined THEN Bool(TRUE) ELSE body'.stream
    /\ pc' = "validate"
    /\ UNCHANGED << env, req, chunks, buf, upVars, resVars >>

\* line 65
BodyValid(b) ==
    Truthy(b.bot_id) /\ Truthy(b.user_id) /\ IsArray(b.additional_messages)

\* lines 65-69
MissingFields ==
    /\ pc = "validate"
    /\ ~BodyValid(body)
    /\ Json(400, [error |-> "Missing required fields: bot_id, user_id, additional_messages[]"])
    /\ UNCHANGED << env, req, localVars, upVars >>

\* mutant of BodyOk: the API key check is skipped
BodyOk_SkipsKeyCheck ==
    /\ pc = "validate"
    /\ BodyValid(body)
    /\ pc' = "import"
    /\ UNCHANGED << env, req, localVars, upVars, resVars >>

BodyOk ==
    /\ pc = "validate"
    /\ BodyValid(body)
    /\ pc' = "token"
    /\ UNCHANGED << env, req, localVars, upVars, resVars >>

\* lines 71-72
NotConfigured ==
    /\ pc = "token"
    /\ ~Truthy(env.COZE_API_KEY)
    /\ Json(500, [error |-> "COZE_API_KEY is not configured"])
    /\ UNCHANGED << env, req, localVars, upVars >>

TokenOk ==
    /\ pc = "token"
    /\ Truthy(env.COZE_API_KEY)
    /\ pc' = "import"
    /\ UNCHANGED << env, req, localVars, upVars, resVars >>

\* lines 77-82: await import('@coze/api') and new CozeAPI, outside the try:
\* a failure rejects the handler's promise
ImportSdk ==
    /\ pc = "import"
    /\ pc' \in { "call", "crashed" }
    /\ UNCHANGED << env, req, localVars, upVars, resVars >>

-----------------------------------------------------------------------------
(* The upstream call and the relay *)

\* mutant of Dispatch: an unrecognised stream is treated as a failure
Dispatch_UnknownThrows(st, sh) ==
    IF Truthy(st)
    THEN IF HasAsyncIterator(sh) THEN "iter"
         ELSE IF HasGetReader(sh) THEN "reader"
         ELSE "catch"
    ELSE IF HasAsyncIterator(sh) THEN "collectIter"
         ELSE IF HasGetReader(sh) THEN "collectReader"
         ELSE "respond"

\* where the handler goes once `s` is there (lines 101, 112, 127 / 143, 145, 156)
Dispatch(st, sh) ==
    IF Truthy(st)
    THEN IF HasAsyncIterator(sh) THEN "iter"
         ELSE IF HasGetReader(sh) THEN "reader"
         ELSE "fallback"
    ELSE IF HasAsyncIterator(sh) THEN "collectIter"
         ELSE IF HasGetReader(sh) THEN "collectReader"
         ELSE "respond"

\* lines 87-93 / 134-139: await api.chat.stream(...) rejects
CallRejects ==
    /\ pc = "call"
    /\ calls' = calls + 1
    /\ upState' = "failed"
    /\ pc' = "catch"
    /\ UNCHANGED << env, req, localVars, resVars, shape, yielded >>

\* lines 87-98 / 134-142: await api.chat.stream(...) resolves to `s`; the
\* streaming branch then sets the SSE headers
CallResolves ==
    /\ pc = "call"
    /\ calls' = calls + 1
    /\ upState' = "open"
    /\ \E sh \in Shapes : shape' = sh
    /\ headers' = IF Truthy(stream) THEN SseHeaders(headers) ELSE headers
    /\ pc' = Dispatch(stream, shape')
    /\ UNCHANGED << env, req, localVars, yielded, statusCode, headersSent,
                    wireStatus, written, sent, ended >>

\* the stream fails while it is being read: for await / reader.read() throws
StreamFails ==
    /\ pc \in { "iter", "reader", "collectIter", "collectReader" }
    /\ upState' = "failed"
    /\ pc' = "catch"
    /\ UNCHANGED << env, req, localVars, resVars, calls, shape, yielded >>

\* lines 102-106
IterChunk ==
    /\ pc = "iter"
    /\ Len(yielded) < MaxChunks
    /\ \E c \in Chunks :
        /\ yielded' = Append(yielded, c)
        /\ Flush(statusCode, << SseEvent(JSONstringify(c)) >>, FALSE)
    /\ UNCHANGED << env, req, localVars, pc, calls, shape, upState, headers, sent >>

\* mutant of StreamDone: the stream is closed without the [DONE] event
StreamDone_NoTerminalEvent ==
    /\ pc \in { "iter", "reader" }
    /\ upState' = "done"
    /\ Flush(statusCode, << >>, TRUE)
    /\ pc' = "done"
    /\ UNCHANGED << env, req, localVars, calls, shape, yielded, headers, sent >>

\* lines 107-108 / 123-124
StreamDone ==
    /\ pc \in { "iter", "reader" }
    /\ upState' = "done"
    /\ Flush(statusCode, << DoneEvent >>, TRUE)
    /\ pc' = "done"
    /\ UNCHANGED << env, req, localVars, calls, shape, yielded, headers, sent >>

\* lines 113-122
ReaderChunk ==
    /\ pc = "reader"
    /\ Len(yielded) < MaxChunks
    /\ \E value \in ReaderValues :
        /\ yielded' = Append(yielded, value)
        /\ Flush(statusCode, << SseEvent(RawText(ToText(value))) >>, FALSE)
    /\ UNCHANGED << env, req, localVars, pc, calls, shape, upState, headers, sent >>

\* lines 128-130
Fallback ==
    /\ pc = "fallback"
    /\ Flush(statusCode, << NoticeEvent, DoneEvent >>, TRUE)
    /\ pc' = "done"
    /\ UNCHANGED << env, req, localVars, upVars, headers, sent >>

\* mutant of CollectChunk: chunks are collected newest first
CollectChunk_Unshift ==
    /\ pc = "collectIter"
    /\ Len(yielded) < MaxChunks
    /\ \E c \in Chunks :
        /\ yielded' = Append(yielded, c)
        /\ chunks' = << c >> \o chunks
    /\ UNCHANGED << env, req, body, stream, buf, pc, calls, shape, upState, resVars >>

\* line 144
CollectChunk ==
    /\ pc = "collectIter"
    /\ Len(yielded) < MaxChunks
    /\ \E c \in Chunks :
        /\ yielded' = Append(yielded, c)
        /\ chunks' = Append(chunks, c)
    /\ UNCHANGED << env, req, body, stream, buf, pc, calls, shape, upState, resVars >>

\* line 144: the iteration ends
CollectDone ==
    /\ pc = "collectIter"
    /\ upState' = "done"
    /\ pc' = "respond"
    /\ UNCHANGED << env, req, localVars, resVars, calls, shape, yielded >>

\* lines 150-152: TextDecoder.decode takes bytes and throws a TypeError on a
\* string
CollectRead ==
    /\ pc = "collectReader"
    /\ Len(yielded) < MaxChunks
    /\ \E value \in ReaderValues :
        /\ yielded' = Append(yielded, value)
        /\ IF value.t = "bytes"
           THEN buf' = buf \o Utf8(value.v) /\ pc' = pc
           ELSE buf' = buf /\ pc' = "catch"
    /\ UNCHANGED << env, req, body, stream, chunks, calls, shape, upState, resVars >>

\* lines 151, 154
CollectReadDone ==
    /\ pc = "collectReader"
    /\ upState' = "done"
    /\ chunks' = Append(chunks, [raw |-> buf])
    /\ pc' = "respond"
    /\ UNCHANGED << env, req, body, stream, buf, resVars, calls, shape, yielded >>

\* line 156
Respond ==
    /\ pc = "respond"
    /\ Json(200, [ok |-> TRUE, chunks |-> chunks])
    /\ UNCHANGED << env, req, localVars, upVars >>

\* lines 158-163
Catch ==
    /\ pc = "catch"
    /\ Json(502, [error |-> "Coze API call failed", detail |-> "message"])
    /\ UNCHANGED << env, req, localVars, upVars >>

-----------------------------------------------------------------------------

Next ==
    \/ SetCors
    \/ Preflight
    \/ MethodNotAllowed
    \/ MethodOk
    \/ Unauthorized
    \/ AuthOk
    \/ InvalidJson
    \/ ReadBody
    \/ MissingFields
    \/ BodyOk
    \/ NotConfigured
    \/ TokenOk
    \/ ImportSdk
    \/ CallRejects
    \/ CallResolves
    \/ StreamFails
    \/ IterChunk
    \/ StreamDone
    \/ ReaderChunk
    \/ Fallback
    \/ CollectChunk
    \/ CollectDone
    \/ CollectRead
    \/ CollectReadDone
    \/ Respond
    \/ Catch

Spec == Init /\ [][Next]_vars

-----------------------------------------------------------------------------
(* Vocabulary of the properties *)

Returned == pc = "done"

Finished == pc \in { "done", "crashed" }

SecretConfigured == Truthy(env.APP_SHARED_SECRET)

LacksAuthHeader == ~Truthy(req.headers.xAppAuth)

IsPost == req.method = "POST"

IsOptions == req.method = "OPTIONS"

Streaming == Truthy(stream)

ReqBodyComplete ==
    /\ req.body.t = "object"
    /\ req.body.v.bot_id.t = "string" /\ req.body.v.bot_id.v # << >>
    /\ req.body.v.user_id.t = "string" /\ req.body.v.user_id.v # << >>
    /\ req.body.v.additional_messages.t = "array"

\* the x-app-auth header is the configured secret, character for character
HeaderIsSecret == req.headers.xAppAuth = env.APP_SHARED_SECRET

KeyPresent == env.COZE_API_KEY.t = "string" /\ env.COZE_API_KEY.v # << >>

-----------------------------------------------------------------------------
(* C1 *)

\* C1 as stated: with a shared secret configured, every request that lacks
\* the x-app-auth header is answered 401, whatever its method or body.
C1_AsStated ==
    (Returned /\ SecretConfigured /\ LacksAuthHeader) => wireStatus = 401

\* C1, amended: with a shared secret configured, every POST request that lacks
\* the x-app-auth header (absent or empty) is answered 401 with the
\* Unauthorized document, whatever its body; its body is never read and no
\* upstream call is made.
C1_PostWithoutHeaderIs401 ==
    (SecretConfigured /\ LacksAuthHeader /\ IsPost) =>
        /\ pc \in { "setCors", "method", "auth", "done" }
        /\ Returned => /\ wireStatus = 401
                       /\ sent = << [error |-> "Unauthorized"] >>
                       /\ written = << >>
        /\ body = EmptyObject
        /\ calls = 0

C1_Witness ==
    /\ Returned /\ wireStatus = 401
    /\ SecretConfigured /\ req.headers.xAppAuth = Undefined /\ IsPost
    /\ ReqBodyComplete /\ KeyPresent

-----------------------------------------------------------------------------
(* C2 *)

\* C2: with no shared secret configured, authentication never rejects:
\* verifyAppAuth passes whatever the x-app-auth header is, no response is 401,
\* and a POST at the authentication check goes on to read and validate the body.
C2_OpenModeNeverRejects ==
    /\ [](~SecretConfigured => (verifyAppAuth(env, req) /\ wireStatus # 401))
    /\ [][(~SecretConfigured /\ pc = "auth") => pc' = "body"]_vars

C2_Witness ==
    /\ ~SecretConfigured
    /\ req.headers.xAppAuth = Str(<< "s", "u" >>)
    /\ IsPost
    /\ pc = "validate"

-----------------------------------------------------------------------------
(* C3 *)

\* C3: a request whose method is neither POST nor OPTIONS is answered 405 and
\* the upstream call is never made, whatever its headers, body and the
\* configuration.
C3_OtherMethodsAre405 ==
    (~IsPost /\ ~IsOptions) =>
        /\ calls = 0
        /\ pc \in { "setCors", "method", "done" }
        /\ Returned => /\ wireStatus = 405
                       /\ sent = << [error |-> "Method Not Allowed"] >>

C3_Witness ==
    /\ req.method = "DELETE" /\ Returned /\ wireStatus = 405
    /\ SecretConfigured /\ HeaderIsSecret /\ ReqBodyComplete /\ KeyPresent

-----------------------------------------------------------------------------
(* C4 *)

\* C4: an OPTIONS request is answered 204 with the CORS headers set and an
\* empty body, and the upstream call is never made, whatever its headers, body
\* and the configuration.
C4_PreflightIs204 ==
    IsOptions =>
        /\ calls = 0
        /\ pc \in { "setCors", "method", "done" }
        /\ Returned =>
            /\ wireStatus = 204
            /\ ended
            /\ written = << >> /\ sent = << >>
            /\ DOMAIN headers =
                 { "Access-Control-Allow-Origin", "Vary", "Access-Control-Allow-Methods",
                   "Access-Control-Allow-Headers", "Access-Control-Max-Age" }
            /\ headers["Access-Control-Allow-Origin"] # << >>
            /\ headers["Vary"] = << "Origin" >>
            /\ headers["Access-Control-Allow-Methods"] = << "POST, OPTIONS" >>
            /\ headers["Access-Control-Allow-Headers"] = << "Content-Type, X-App-Auth" >>
            /\ headers["Access-Control-Max-Age"] = << "86400" >>

C4_Witness ==
    /\ IsOptions /\ Returned /\ wireStatus = 204
    /\ SecretConfigured /\ LacksAuthHeader /\ ReqBodyComplete /\ KeyPresent

-----------------------------------------------------------------------------
(* C5 *)

\* the `data:` event the relay owes for one upstream item: the JSON text of
\* an async-iterable's chunk, the decoded text of a reader's value
OwedEvent(sh, item) ==
    IF sh = "iter"
    THEN [data |-> [json |-> item]]
    ELSE [data |-> [text |-> IF item.t = "string" THEN item.v
                             ELSE [i \in DOMAIN item.v |->
                                     IF item.v[i] = 65 THEN "A" ELSE "B"]]]

OwedEvents(sh, items) == [i \in DOMAIN items |-> OwedEvent(sh, items[i])]

TerminalEvent == [data |-> [text |-> << "[", "D", "O", "N", "E", "]" >>]]

\* C5: in streaming mode, with an async-iterable or reader upstream that
\* yields c1..cn and finishes, the body is one `data:` event per chunk, in
\* upstream order, none dropped or duplicated (each written as it arrives),
\* then exactly one `data: [DONE]` event; the response is then ended with
\* status 200 and nothing more is written.
C5_StreamRelaysInOrder ==
    /\ []((Streaming /\ shape \in { "iter", "reader" }) =>
            /\ upState = "open" /\ ~Finished =>
                 written = OwedEvents(shape, yielded)
            /\ upState = "done" =>
                 /\ written = OwedEvents(shape, yielded) \o << TerminalEvent >>
                 /\ Returned /\ ended /\ wireStatus = 200 /\ sent = << >>)
    /\ [][ended => (written' = written /\ sent' = sent /\ wireStatus' = wireStatus)]_vars

C5_Witness ==
    /\ Streaming /\ shape = "iter" /\ upState = "done"
    /\ yielded = << "A", "B" >>
    /\ written = << [data |-> [json |-> "A"]], [data |-> [json |-> "B"]], TerminalEvent >>
    /\ ended

-----------------------------------------------------------------------------
(* C6 *)

\* C6: in non-streaming mode, with an async-iterable upstream that yields
\* c1..cn and finishes, the response is 200 with the document
\* { ok: true, chunks: [c1..cn] }, every chunk once and in upstream order, and
\* nothing reaches the caller before the upstream is exhausted.
C6_BufferedCollectsInOrder ==
    (~Streaming /\ shape = "iter") =>
        /\ upState = "open" =>
             /\ ~headersSent /\ wireStatus = 0
             /\ written = << >> /\ sent = << >> /\ ~ended
        /\ upState = "done" =>
             /\ chunks = yielded
             /\ written = << >>
             /\ Returned => /\ wireStatus = 200
                            /\ sent = << [ok |-> TRUE, chunks |-> yielded] >>
                            /\ ended
             /\ ~Returned => (pc = "respond" /\ ~headersSent /\ sent = << >>)

C6_Witness ==
    /\ ~Streaming /\ shape = "iter" /\ upState = "done" /\ Returned
    /\ yielded = << "A", "B" >>
    /\ sent = << [ok |-> TRUE, chunks |-> << "A", "B" >>] >>

-----------------------------------------------------------------------------
(* C7 *)

\* C7: in streaming mode, with an upstream result that is neither
\* async-iterable nor reader-based, the body is one notice event and then the
\* [DONE] event, the response ends normally with status 200, and no 502 is
\* produced.
C7_UnknownShapeFallsBack ==
    (Streaming /\ shape \in { "other", "null" }) =>
        /\ pc \in { "fallback", "done" }
        /\ wireStatus # 502
        /\ Returned =>
             /\ written = << [data |-> [json |-> [notice |-> "unknown stream payload"]]],
                             TerminalEvent >>
             /\ ended /\ wireStatus = 200 /\ sent = << >>

C7_Witness ==
    /\ Streaming /\ shape = "null" /\ Returned /\ Len(written) = 2 /\ ended

-----------------------------------------------------------------------------
(* C8 *)

\* C8: any upstream failure - the call rejecting, or the stream failing
\* while it is read, streaming or not - is reported to the caller as a 502
\* JSON response with an `error` field, with at most one upstream call.
C8_UpstreamFailureIs502 ==
    (upState = "failed" /\ Finished) =>
        /\ calls <= 1
        /\ Returned
        /\ wireStatus = 502
        /\ Len(sent) = 1 /\ "error" \in DOMAIN sent[1]

-----------------------------------------------------------------------------
(* C9 *)

\* the configured allow-list: the comma-separated entries of ALLOWED_ORIGINS,
\* blanks trimmed, empty entries dropped
AllowList ==
    LET raw == env.ALLOWED_ORIGINS
    IN CASE raw = Str(<< "a" >>) -> << << "a" >> >>
         [] raw = Str(<< "a", ",", "b" >>) -> << << "a" >>, << "b" >> >>
         [] raw = Str(<< " ", "b", " ", ",", "a", " " >>) -> << << "b" >>, << "a" >> >>
         [] OTHER -> << >>

HasOrigin == req.headers.origin.t = "string"

\* C9: Access-Control-Allow-Origin is set before any other decision, so every
\* response carries it; its value is `*` when the allow-list is empty, the
\* request's Origin when that is in the allow-list, and the allow-list's
\* first entry otherwise (also when the request has no Origin).
C9_AllowOriginOnEveryResponse ==
    /\ pc = "setCors" => (wireStatus = 0 /\ ~headersSent /\ calls = 0)
    /\ pc # "setCors" =>
         /\ "Access-Control-Allow-Origin" \in DOMAIN headers
         /\ headers["Access-Control-Allow-Origin"] =
              IF AllowList = << >> THEN << "*" >>
              ELSE IF HasOrigin /\ req.headers.origin.v \in Range(AllowList)
                   THEN req.headers.origin.v
                   ELSE AllowList[1]
    /\ headersSent => pc # "setCors"

C9_Witness ==
    /\ Returned /\ wireStatus = 200 /\ Streaming
    /\ Len(AllowList) = 2
    /\ req.headers.origin = Str(AllowList[2])
    /\ headers["Access-Control-Allow-Origin"] = AllowList[2]

-----------------------------------------------------------------------------
(* C10 *)

\* the status the first failing check gives, 0 when every check passes
FirstFailure ==
    IF IsOptions THEN 204
    ELSE IF ~IsPost THEN 405
    ELSE IF SecretConfigured /\ ~HeaderIsSecret THEN 401
    ELSE IF ~ReqBodyComplete THEN 400
    ELSE IF ~KeyPresent THEN 500
    ELSE 0

\* C10: the checks run in a fixed order and the first failing one decides
\* the response: OPTIONS 204, not POST 405, shared secret 401, body fields
\* 400, API key 500; the upstream call is made only when all have passed.
C10_FirstFailingCheckDecides ==
    /\ FirstFailure # 0 =>
         /\ calls = 0
         /\ pc \in { "setCors", "method", "auth", "body", "validate", "token", "done" }
         /\ Returned => wireStatus = FirstFailure
    /\ calls > 0 => FirstFailure = 0
    /\ (FirstFailure = 0 /\ Finished) => (calls = 1 \/ pc = "crashed")

C10_Witness ==
    /\ IsPost /\ SecretConfigured /\ ~HeaderIsSecret
    /\ ~ReqBodyComplete /\ ~KeyPresent
    /\ Returned /\ wireStatus = 401

=============================================================================
